---- MODULE Spec2Model ----
(***************************************************************************)
(* Model of repobatch's command execution layer:                           *)
(*   executor.run_command, executor.run_batch (sequential loop),           *)
(*   executor._run_command_async, executor._run_batch_async (asyncio       *)
(*   tasks behind an asyncio.Semaphore, collected by asyncio.gather) and   *)
(*   models.BatchResult.from_results.                                      *)
(*                                                                         *)
(* and of its project discovery: discovery.discover_projects with its      *)
(* directory walk, models.Project.from_path and                            *)
(* models.Project.matches_filters.                                         *)
(*                                                                         *)
(* Text is a sequence of string tokens ("" is <<>>); a byte stream is a    *)
(* sequence of byte values; an optional value (None | x) is <<>> | <<x>>.  *)
(***************************************************************************)
EXTENDS Integers, Sequences, FiniteSets, TLC

\* ------------------------------------------------------------------ bounds
MaxProjects == 3
MaxWorkers == 2

\* --------------------------------------------------------------- constants
DefaultTimeout == 300
Sentinel == 0 - 1

\* ------------------------------------------------------------------ inputs
\* The projects of a batch: 1..n stands for n distinct Project records.
ProjectLists == { [i \in 1..n |-> i] : n \in 0..MaxProjects }

\* timeout: int | None
Timeouts == { <<>>, <<DefaultTimeout>> }

\* Bytes a child process may write: "e", "o" and one byte that is not valid
\* in the text encoding.
Chr == [b \in {101, 111} |-> IF b = 101 THEN "e" ELSE "o"]
BadByte == 255

\* What a child that runs to completion does: exit status and the bytes
\* written to stdout / stderr.
ChildExits ==
    { [rc |-> 0, out |-> <<111>>, err |-> <<>>],
      [rc |-> 7, out |-> <<>>, err |-> <<101>>],
      [rc |-> 0, out |-> <<BadByte>>, err |-> <<>>] }

\* Exceptions: class name and str(e).
Exc(cls, msg) == [cls |-> cls, msg |-> msg]
NoExc == Exc("none", <<>>)
TimeoutExpired == Exc("TimeoutExpired", <<"timed out">>)
TimeoutError == Exc("TimeoutError", <<>>)
ProcessLookupError == Exc("ProcessLookupError", <<>>)
UnicodeDecodeError == Exc("UnicodeDecodeError", <<"codec can't decode byte">>)
\* Faults of the process launch (bad cwd, embedded null byte in the command).
LaunchFaults ==
    { Exc("FileNotFoundError", <<"No such file or directory">>),
      Exc("ValueError", <<"embedded null byte">>) }

\* Exception classes that derive from Exception, and those from OSError.
ExceptionClasses ==
    {"TimeoutExpired", "TimeoutError", "ProcessLookupError",
     "UnicodeDecodeError", "FileNotFoundError", "ValueError"}
OSErrorClasses == {"ProcessLookupError", "FileNotFoundError", "TimeoutError"}

\* --------------------------------------------------------- pure functions
\* bytes.decode() / text=True: fails on a byte outside the encoding.
Decodable(bytes) == \A i \in DOMAIN bytes : bytes[i] \in DOMAIN Chr
decode(bytes) == [i \in DOMAIN bytes |-> Chr[bytes[i]]]

\* f"Command timed out after {timeout} seconds"
TimeoutMessage(timeout) ==
    <<"Command timed out after ", ToString(timeout[1]), " seconds">>

CommandResult(project, success, output, error, exit_code) ==
    [project |-> project, success |-> success, output |-> output,
     error |-> error, exit_code |-> exit_code]

\* The outcome built in the TimeoutExpired / TimeoutError handlers.
TimeoutResult(project, timeout) ==
    CommandResult(project, FALSE, <<>>, TimeoutMessage(timeout), Sentinel)

\* The outcome built in the "except Exception as e" handlers.
FaultResult(project, e) ==
    CommandResult(project, FALSE, <<>>, e.msg, Sentinel)

\* "except Exception": does the handler catch e?
CatchesOSErrorOnly(e) == e.cls \in OSErrorClasses
ExceptionCaught(e) == e.cls \in ExceptionClasses

\* A call's result: a returned value, or an exception that propagates.
Returned(v) == [raised |-> FALSE, exc |-> NoExc, value |-> <<v>>]
Raised(e) == [raised |-> TRUE, exc |-> e, value |-> <<>>]

\* Behaviours of one child process as subprocess.run sees them.
Beh(kind, ex, exc) == [kind |-> kind, ex |-> ex, exc |-> exc]
NoExit == [rc |-> 0, out |-> <<>>, err |-> <<>>]
Behaviours(timeout) ==
    { Beh("exit", x, NoExc) : x \in ChildExits }
    \cup { Beh("fault", NoExit, e) : e \in LaunchFaults }
    \cup (IF timeout # <<>> THEN { Beh("timeout", NoExit, NoExc) } ELSE {})

\* subprocess.run(..., capture_output, text=True, timeout, check=False):
\* raises on a launch fault, on timeout (after killing and reaping the
\* child) and when captured output does not decode; otherwise returns the
\* completed process.
subprocess_run(beh, capture_output) ==
    CASE beh.kind = "fault" -> Raised(beh.exc)
      [] beh.kind = "timeout" -> Raised(TimeoutExpired)
      [] OTHER ->
           IF capture_output /\ ~(Decodable(beh.ex.out) /\ Decodable(beh.ex.err))
           THEN Raised(UnicodeDecodeError)
           ELSE Returned([returncode |-> beh.ex.rc,
                          stdout |-> IF capture_output THEN <<decode(beh.ex.out)>> ELSE <<>>,
                          stderr |-> IF capture_output THEN <<decode(beh.ex.err)>> ELSE <<>>])

\* run_command body
run_command(project, beh, timeout, capture_output) ==
    LET r == subprocess_run(beh, capture_output) IN
    IF ~r.raised
    THEN LET result == r.value[1] IN
         Returned(CommandResult(project,
                                result.returncode = 0,
                                IF capture_output THEN result.stdout[1] ELSE <<>>,
                                IF capture_output THEN result.stderr[1] ELSE <<>>,
                                result.returncode))
    ELSE IF r.exc.cls = "TimeoutExpired"
         THEN Returned(TimeoutResult(project, timeout))
         ELSE IF ExceptionCaught(r.exc)
              THEN Returned(FaultResult(project, r.exc))
              ELSE Raised(r.exc)

\* sum(1 for r in results if r.success)
RECURSIVE CountSuccess(_)
CountSuccess(results) ==
    IF results = <<>> THEN 0
    ELSE (IF results[1].success THEN 1 ELSE 0) + CountSuccess(Tail(results))

\* BatchResult.from_results
from_results_failed_is_len(results) ==
    [results |-> results, total |-> Len(results),
     successful |-> CountSuccess(results), failed |-> Len(results)]
from_results(results) ==
    LET successful == CountSuccess(results)
        failed == Len(results) - successful
    IN [results |-> results, total |-> Len(results),
        successful |-> successful, failed |-> failed]

\* "if not continue_on_error and not result.success: break"
BreakNever(coe, result) == FALSE
BreakOnAnyFailure(coe, result) == ~result.success
ShouldBreak(coe, result) == ~coe /\ ~result.success

\* -------------------------------------------------- asynchronous runner
\* Streams handed back by proc.communicate(): bytes when piped, else None.
communicate(ex, capture_output) ==
    [stdout |-> IF capture_output THEN <<ex.out>> ELSE <<>>,
     stderr |-> IF capture_output THEN <<ex.err>> ELSE <<>>]

\* Python truthiness of "bytes | None"
Truthy(opt) == opt # <<>> /\ opt[1] # <<>>

\* "proc.returncode or 0"
ReturncodeOrSentinel(rc) == IF rc # 0 THEN rc ELSE Sentinel
ReturncodeOrZero(rc) == IF rc # 0 THEN rc ELSE 0

\* _run_command_async after wait_for(proc.communicate()) has returned:
\* builds the outcome; a decode error lands in the outer handler.
async_completed(project, ex, capture_output) ==
    LET streams == communicate(ex, capture_output)
        useOut == capture_output /\ Truthy(streams.stdout)
        useErr == capture_output /\ Truthy(streams.stderr)
    IN IF (useOut /\ ~Decodable(streams.stdout[1]))
          \/ (useErr /\ ~Decodable(streams.stderr[1]))
       THEN IF ExceptionCaught(UnicodeDecodeError)
            THEN Returned(FaultResult(project, UnicodeDecodeError))
            ELSE Raised(UnicodeDecodeError)
       ELSE Returned(CommandResult(project,
                                   ex.rc = 0,
                                   IF useOut THEN decode(streams.stdout[1]) ELSE <<>>,
                                   IF useErr THEN decode(streams.stderr[1]) ELSE <<>>,
                                   ReturncodeOrZero(ex.rc)))

\* _run_command_async when an exception other than the inner TimeoutError
\* reaches "except Exception as e".
async_fault(project, e) ==
    IF ExceptionCaught(e) THEN Returned(FaultResult(project, e)) ELSE Raised(e)

\* A child process: not started, alive, exited (with what it did), killed.
Proc(st, ex) == [st |-> st, ex |-> ex]
NoProc == Proc("none", NoExit)

\* proc.kill() in the timeout handler: signals the unit's own child; a child
\* that has already exited is left as it is.
kill_all(procs, i) ==
    [j \in DOMAIN procs |->
        IF procs[j].st = "alive" THEN Proc("killed", NoExit) ELSE procs[j]]
kill(procs, i) ==
    IF procs[i].st = "alive"
    THEN [procs EXCEPT ![i] = Proc("killed", NoExit)]
    ELSE procs

\* asyncio.Semaphore(max_workers), locked(), release()
Semaphore(value) == value
locked_never(value) == FALSE
locked_at_one(value) == value <= 1
locked(value) == value = 0
release_noop(value) == value
release(value) == value + 1

\* asyncio.gather(*tasks): results in the order of the awaitables given.
gather_in_completion_order(tasks, done) ==
    [k \in 1..Len(done) |-> tasks[done[k]][1]]
gather_drop_failed(tasks, done) ==
    SelectSeq([i \in DOMAIN tasks |-> tasks[i][1]], LAMBDA r : r.success)
gather(tasks, done) == [i \in DOMAIN tasks |-> tasks[i][1]]

\* ------------------------------------------------------------------- state
VARIABLES
    projects,           \* run_batch argument
    parallel,           \* run_batch argument
    continue_on_error,  \* run_batch argument
    max_workers,        \* run_batch argument
    timeout,            \* run_batch argument
    capture_output,     \* run_batch argument
    pc,                 \* "call", "seq", "par", "done", "raised"
    results,            \* the list built by the sequential loop
    launched,           \* indices of the projects a command was started for
    behaviour,          \* what each started child did, as far as it got
    sem,                \* semaphore._value
    unit,               \* position of each _run_with_semaphore coroutine
    proc,               \* each unit's child process
    task,               \* each task's result, once it has one
    completed,          \* unit indices in the order their tasks finished
    batch               \* the returned BatchResult, once there is one

\* State of a directory walk (discover_projects).
VARIABLES
    max_depth,          \* discover_projects argument
    rootHolds,          \* whether the root directory itself holds a marker
    wpc,                \* "idle", "walk", "done", "raised"
    stack,              \* the active _walk generators, innermost last
    pending,            \* the _walk call about to start, if any
    walked,             \* the directories yielded so far, with their content
    pruned,             \* the directories skipped by name, with their content
    discovered,         \* the list "projects" of discover_projects
    seen_dirs           \* the set "seen_dirs" of discover_projects

wvars == <<max_depth, rootHolds, wpc, stack, pending, walked, pruned,
           discovered, seen_dirs>>

\* State of one Project record: built by from_path, then filtered.
VARIABLES
    directory,          \* the content of the directory given to from_path
    project,            \* the Project built, once there is one
    options,            \* the options given to matches_filters
    matched,            \* the result of matches_filters, once there is one
    rpc                 \* "idle", "scan", "filter", "done", "raised"

rvars == <<directory, project, options, matched, rpc>>

\* State of one input run in both modes, sequential first.
VARIABLES
    command,            \* run_batch argument: a string or a list of arguments
    shell,              \* run_batch argument
    mworkers,           \* max_workers of the concurrent run
    mtimeout,           \* timeout of both runs
    world,              \* what each launched program does in each project
    mpc,                \* "idle", "seq", "par", "done"
    seq_results,        \* the list "results" of the sequential loop
    seq_batch,          \* the BatchResult of the sequential run
    msem,               \* the semaphore of the concurrent run
    munit,              \* per project: "waiting", "running", "done"
    mtask,              \* per project: the result of its task, once done
    par_batch           \* the BatchResult of the concurrent run

mvars == <<command, shell, mworkers, mtimeout, world, mpc, seq_results,
           seq_batch, msem, munit, mtask, par_batch>>

\* State of the update command.
VARIABLES
    dry_run,            \* update option
    targets,            \* the copier-managed projects found
    upc,                \* position in update: "call", "next", "push", "copier",
                        \* "conflicts", "pop", "popanyway", "done", "exit1"
    cursor,             \* index of the project of the current iteration
    stashed,            \* the local "stashed" of the current iteration
    problem_projects,   \* the list "problem_projects"
    ran                 \* the commands run so far, with their outcome

uvars == <<dry_run, targets, upc, cursor, stashed, problem_projects, ran>>

evars == <<projects, parallel, continue_on_error, max_workers, timeout,
           capture_output, pc, results, launched, behaviour, sem, unit, proc,
           task, completed, batch>>

vars == <<evars, wvars, rvars, mvars, uvars>>

\* No walk, no Project record, no batch under way.
WalkIdle ==
    /\ max_depth = 0
    /\ rootHolds = FALSE
    /\ wpc = "idle"
    /\ stack = <<>>
    /\ pending = <<>>
    /\ walked = <<>>
    /\ pruned = {}
    /\ discovered = <<>>
    /\ seen_dirs = {}

RecordIdle ==
    /\ directory = <<>>
    /\ project = <<>>
    /\ options = <<>>
    /\ matched = <<>>
    /\ rpc = "idle"

ModesIdle ==
    /\ command = <<>>
    /\ shell = TRUE
    /\ mworkers = 1
    /\ mtimeout = <<>>
    /\ world = <<>>
    /\ mpc = "idle"
    /\ seq_results = <<>>
    /\ seq_batch = <<>>
    /\ msem = 0
    /\ munit = <<>>
    /\ mtask = <<>>
    /\ par_batch = <<>>

UpdateIdle ==
    /\ dry_run = FALSE
    /\ targets = <<>>
    /\ upc = "idle"
    /\ cursor = 0
    /\ stashed = FALSE
    /\ problem_projects = <<>>
    /\ ran = <<>>

BatchIdle ==
    /\ projects = <<>>
    /\ parallel = FALSE
    /\ continue_on_error = TRUE
    /\ max_workers = 1
    /\ timeout = <<>>
    /\ capture_output = TRUE
    /\ pc = "idle"
    /\ results = <<>>
    /\ launched = {}
    /\ behaviour = <<>>
    /\ sem = 0
    /\ unit = <<>>
    /\ proc = <<>>
    /\ task = <<>>
    /\ completed = <<>>
    /\ batch = <<>>

args == <<projects, parallel, continue_on_error, max_workers, timeout,
          capture_output>>

N == Len(projects)
Units == 1..N

Init ==
    /\ projects \in ProjectLists
    /\ parallel \in BOOLEAN
    /\ continue_on_error \in BOOLEAN
    /\ max_workers \in 1..MaxWorkers
    /\ timeout \in Timeouts
    /\ capture_output \in BOOLEAN
    /\ pc = "call"
    /\ results = <<>>
    /\ launched = {}
    /\ behaviour = [i \in 1..Len(projects) |-> Beh("none", NoExit, NoExc)]
    /\ sem = 0
    /\ unit = [i \in 1..Len(projects) |-> "new"]
    /\ proc = [i \in 1..Len(projects) |-> NoProc]
    /\ task = [i \in 1..Len(projects) |-> <<>>]
    /\ completed = <<>>
    /\ batch = <<>>
    /\ WalkIdle
    /\ RecordIdle
    /\ ModesIdle
    /\ UpdateIdle

\* run_batch entry: dispatch on parallel.  The concurrent branch creates the
\* semaphore and one coroutine per project; the sequential branch with no
\* projects falls through the loop and returns.
Call ==
    /\ pc = "call"
    /\ IF parallel
       THEN /\ pc' = "par"
            /\ sem' = Semaphore(max_workers)
            /\ unit' = [i \in Units |-> "waiting"]
            /\ batch' = batch
       ELSE /\ sem' = sem
            /\ unit' = unit
            /\ IF N = 0
               THEN pc' = "done" /\ batch' = <<from_results(results)>>
               ELSE pc' = "seq" /\ batch' = batch
    /\ UNCHANGED <<args, results, launched, behaviour, proc, task, completed>>
    /\ UNCHANGED <<wvars, rvars, mvars, uvars>>

\* One iteration of the sequential loop: run_command, append, the break
\* test, and the return when the loop ends.
SeqStep ==
    /\ pc = "seq"
    /\ LET i == Len(results) + 1 IN
       \E beh \in Behaviours(timeout) :
         LET r == run_command(projects[i], beh, timeout, capture_output) IN
         /\ launched' = launched \cup {i}
         /\ behaviour' = [behaviour EXCEPT ![i] = beh]
         /\ IF r.raised
            THEN pc' = "raised" /\ results' = results /\ batch' = batch
            ELSE LET result == r.value[1]
                     rs == Append(results, result)
                 IN /\ results' = rs
                    /\ IF ShouldBreak(continue_on_error, result) \/ i = N
                       THEN pc' = "done" /\ batch' = <<from_results(rs)>>
                       ELSE pc' = "seq" /\ batch' = batch
    /\ UNCHANGED <<args, sem, unit, proc, task, completed>>
    /\ UNCHANGED <<wvars, rvars, mvars, uvars>>

\* ------------------------------------------------- concurrent mode steps
\* The end of unit i's coroutine with call result r: "async with" releases
\* the semaphore on the way out; a returned outcome becomes the task's
\* result, a propagating exception goes through gather out of run_batch.
Finish(i, r) ==
    /\ sem' = release(sem)
    /\ IF r.raised
       THEN /\ unit' = [unit EXCEPT ![i] = "raised"]
            /\ pc' = "raised"
            /\ UNCHANGED <<task, completed>>
       ELSE /\ unit' = [unit EXCEPT ![i] = "done"]
            /\ task' = [task EXCEPT ![i] = r.value]
            /\ completed' = Append(completed, i)
            /\ pc' = pc

\* "async with semaphore": a waiting unit gets a slot when the semaphore is
\* not locked; waiters are served first-in first-out, in creation order.
Acquire(i) ==
    /\ pc = "par"
    /\ unit[i] = "waiting"
    /\ ~locked(sem)
    /\ \A j \in 1..(i - 1) : unit[j] # "waiting"
    /\ sem' = sem - 1
    /\ unit' = [unit EXCEPT ![i] = "spawning"]
    /\ UNCHANGED <<args, pc, results, launched, behaviour, proc, task,
                   completed, batch>>
    /\ UNCHANGED <<wvars, rvars, mvars, uvars>>

\* create_subprocess_shell / create_subprocess_exec succeeds: the child runs
\* and the unit waits in wait_for(proc.communicate(), timeout).
SpawnOk(i) ==
    /\ pc = "par"
    /\ unit[i] = "spawning"
    /\ launched' = launched \cup {i}
    /\ proc' = [proc EXCEPT ![i] = Proc("alive", NoExit)]
    /\ unit' = [unit EXCEPT ![i] = "communicating"]
    /\ UNCHANGED <<args, pc, results, behaviour, sem, task, completed, batch>>
    /\ UNCHANGED <<wvars, rvars, mvars, uvars>>

\* create_subprocess_* raises: the outer handler builds the fault outcome.
SpawnFails(i) ==
    /\ pc = "par"
    /\ unit[i] = "spawning"
    /\ \E e \in LaunchFaults :
         /\ launched' = launched \cup {i}
         /\ behaviour' = [behaviour EXCEPT ![i] = Beh("fault", NoExit, e)]
         /\ Finish(i, async_fault(projects[i], e))
    /\ UNCHANGED <<args, results, proc, batch>>
    /\ UNCHANGED <<wvars, rvars, mvars, uvars>>

\* The child of unit i exits by itself and the event loop has processed
\* the exit: communicate() has its result.
ProcessExits(i) ==
    /\ pc = "par"
    /\ proc[i].st = "alive"
    /\ \E x \in ChildExits : proc' = [proc EXCEPT ![i] = Proc("exited", x)]
    /\ UNCHANGED <<args, pc, results, launched, behaviour, sem, unit, task,
                   completed, batch>>
    /\ UNCHANGED <<wvars, rvars, mvars, uvars>>

\* wait_for(proc.communicate()) returns: process exited and pipes at EOF.
CommunicateReturns(i) ==
    /\ pc = "par"
    /\ unit[i] = "communicating"
    /\ proc[i].st = "exited"
    /\ behaviour' = [behaviour EXCEPT ![i] = Beh("exit", proc[i].ex, NoExc)]
    /\ Finish(i, async_completed(projects[i], proc[i].ex, capture_output))
    /\ UNCHANGED <<args, results, launched, proc, batch>>
    /\ UNCHANGED <<wvars, rvars, mvars, uvars>>

\* wait_for raises TimeoutError while communicate() has not completed; the
\* handler runs up to "await proc.wait()".  At that moment the child is
\* alive, or has just exited ("exited": its pipes are still held open,
\* "dropped": the event loop has already dropped it from its transport).
\* proc.kill() signals an alive child, does nothing to an exited one, and
\* raises ProcessLookupError on a dropped one, which the outer handler turns
\* into a fault outcome.  The exit status of such a child is never read.
TimeoutFires(i) ==
    /\ pc = "par"
    /\ unit[i] = "communicating"
    /\ timeout # <<>>
    /\ proc[i].st = "alive"
    /\ \E child \in {"alive", "exited", "dropped"} :
         LET now == IF child = "alive" THEN proc
                    ELSE [proc EXCEPT ![i] = Proc("exited", NoExit)]
         IN IF child = "dropped"
            THEN /\ behaviour' = [behaviour EXCEPT
                                    ![i] = Beh("timeout", NoExit, ProcessLookupError)]
                 /\ Finish(i, async_fault(projects[i], ProcessLookupError))
                 /\ proc' = now
            ELSE /\ behaviour' = [behaviour EXCEPT ![i] = Beh("timeout", NoExit, NoExc)]
                 /\ proc' = kill(now, i)
                 /\ unit' = [unit EXCEPT ![i] = "reaping"]
                 /\ UNCHANGED <<pc, sem, task, completed>>
    /\ UNCHANGED <<args, results, launched, batch>>
    /\ UNCHANGED <<wvars, rvars, mvars, uvars>>

\* "await proc.wait()" returns; the timeout outcome is built.
ReapReturns(i) ==
    /\ pc = "par"
    /\ unit[i] = "reaping"
    /\ proc[i].st \in {"killed", "exited"}
    /\ Finish(i, Returned(TimeoutResult(projects[i], timeout)))
    /\ UNCHANGED <<args, results, launched, behaviour, proc, batch>>
    /\ UNCHANGED <<wvars, rvars, mvars, uvars>>

\* gather has every task's result; _run_batch_async builds the BatchResult
\* and asyncio.run hands it to run_batch's caller.
GatherReturns ==
    /\ pc = "par"
    /\ \A i \in Units : unit[i] = "done"
    /\ pc' = "done"
    /\ batch' = <<from_results(gather(task, completed))>>
    /\ UNCHANGED <<args, results, launched, behaviour, sem, unit, proc, task,
                   completed>>
    /\ UNCHANGED <<wvars, rvars, mvars, uvars>>

Next ==
    \/ Call
    \/ SeqStep
    \/ \E i \in Units : Acquire(i)
    \/ \E i \in Units : SpawnOk(i)
    \/ \E i \in Units : SpawnFails(i)
    \/ \E i \in Units : ProcessExits(i)
    \/ \E i \in Units : CommunicateReturns(i)
    \/ \E i \in Units : TimeoutFires(i)
    \/ \E i \in Units : ReapReturns(i)
    \/ GatherReturns

Spec == Init /\ [][Next]_vars

\* ------------------------------------------ concurrent mode, with progress
\* Concurrent batches only; the arguments that no step of the concurrent
\* scheduling reads are fixed.
LiveInit ==
    /\ Init
    /\ parallel
    /\ continue_on_error
    /\ ~capture_output

LiveNext ==
    \/ Call
    \/ \E i \in Units : Acquire(i)
    \/ \E i \in Units : SpawnOk(i)
    \/ \E i \in Units : SpawnFails(i)
    \/ \E i \in Units : ProcessExits(i)
    \/ \E i \in Units : CommunicateReturns(i)
    \/ \E i \in Units : TimeoutFires(i)
    \/ \E i \in Units : ReapReturns(i)
    \/ GatherReturns

\* The steps of unit i's task and of its child process.
UnitStep(i) ==
    \/ Acquire(i)
    \/ SpawnOk(i)
    \/ SpawnFails(i)
    \/ ProcessExits(i)
    \/ CommunicateReturns(i)
    \/ TimeoutFires(i)
    \/ ReapReturns(i)

\* The event loop runs every task that is ready, and run_batch's own code
\* runs on; every child that was started exits or runs into its timeout.
Fairness ==
    /\ WF_vars(Call)
    /\ WF_vars(GatherReturns)
    /\ \A i \in 1..MaxProjects : WF_vars(i \in Units /\ UnitStep(i))

LiveSpec == LiveInit /\ [][LiveNext]_vars /\ Fairness

\* ------------------------------------------------------ project discovery
\* Model of discovery.discover_projects, discovery._walk_directories,
\* discovery._is_project_root, models.Project.from_path,
\* models.Project._read_copier_info and models.Project.matches_filters.
\*
\* A file or directory name is a sequence of tokens, so that a leading "."
\* can be told; a path is the sequence of names below the walk's root, the
\* root being <<>>; a line of text is a sequence of tokens.

\* exclude_patterns when the caller gives none
DefaultExcludes ==
    { <<".", "git">>, <<".", "venv">>, <<"venv">>, <<"node_modules">>,
      <<"__pycache__">>, <<".", "pytest_cache">>, <<".", "mypy_cache">>,
      <<".", "ruff_cache">>, <<"dist">>, <<"build">>, <<".", "tox">> }

\* project_markers of _is_project_root, in their order
project_markers ==
    << ".git", "pyproject.toml", "package.json", "Cargo.toml", "go.mod",
       "pom.xml", "build.gradle", ".copier-answers.yml" >>

MarkerNames == { project_markers[i] : i \in DOMAIN project_markers }

\* Faults of the file system.
PermissionErr == Exc("PermissionError", <<"Permission denied">>)
NotFoundErr == Exc("FileNotFoundError", <<"No such file or directory">>)
IsADirectoryErr == Exc("IsADirectoryError", <<"Is a directory">>)

\* str.startswith
startswith(s, prefix) ==
    /\ Len(s) >= Len(prefix)
    /\ SubSeq(s, 1, Len(prefix)) = prefix

\* str.strip: drops leading and trailing blanks
RECURSIVE lstrip(_)
lstrip(s) ==
    IF s # <<>> /\ s[1] = " " THEN lstrip(Tail(s)) ELSE s
RECURSIVE rstrip(_)
rstrip(s) ==
    IF s # <<>> /\ s[Len(s)] = " " THEN rstrip(SubSeq(s, 1, Len(s) - 1)) ELSE s
strip(s) == rstrip(lstrip(s))

\* line.split(":", 1)[1].strip() of a line that holds a ":": what
\* follows the first ":", stripped.
RECURSIVE after_first_colon(_)
after_first_colon(line) ==
    IF line[1] = ":" THEN Tail(line) ELSE after_first_colon(Tail(line))
value_after_last_colon(line) ==
    LET k == CHOOSE i \in DOMAIN line :
                /\ line[i] = ":"
                /\ \A j \in DOMAIN line : line[j] = ":" => j <= i
    IN strip(SubSeq(line, k + 1, Len(line)))
value_after_first_colon(line) == strip(after_first_colon(line))

\* "item.name in exclude_patterns or item.name.startswith('.')"
IsExcludedByListOnly(name, exclude_patterns) == name \in exclude_patterns
IsExcluded(name, exclude_patterns) ==
    name \in exclude_patterns \/ startswith(name, <<".">>)

\* "if current_depth > max_depth: return"
DepthExceededAtLimit(current_depth, depth_limit) == current_depth >= depth_limit
DepthExceededPastLimit(current_depth, depth_limit) == current_depth > depth_limit + 1
DepthExceeded(current_depth, depth_limit) == current_depth > depth_limit

\* What a directory holds, as the scanner can see it: for each marker
\* whether (path / marker).exists() answers False, True or faults, and the
\* state of the file .copier-answers.yml when it is opened and read:
\* its lines, or the fault of open() / of decoding it.
Dir(present, faulty, answers) ==
    [markers |-> [m \in MarkerNames |->
                     IF m \in faulty THEN "fault"
                     ELSE IF m \in present THEN "present" ELSE "absent"],
     answers |-> answers]

Lines(ls) == [fault |-> NoExc, lines |-> ls]
Unreadable(e) == [fault |-> e, lines |-> <<>>]

\* (path / marker).exists() inside "try ... except (PermissionError,
\* OSError)": a fault counts as False.
exists_or_true(d, marker) == d.markers[marker] # "absent"
exists_or_false(d, marker) == d.markers[marker] = "present"

\* _is_project_root: some marker exists; a marker whose check faults is
\* passed over.
is_project_root_always(d) == TRUE
_is_project_root(d) ==
    \E i \in DOMAIN project_markers : exists_or_false(d, project_markers[i])

\* The loop of _read_copier_info over the lines of the file: a later
\* "_commit:" / "_src_path:" line replaces an earlier one.
RECURSIVE read_lines(_, _, _)
read_lines(lines, version, template) ==
    IF lines = <<>> THEN [version |-> version, template |-> template]
    ELSE LET line == strip(lines[1]) IN
         IF startswith(line, <<"_commit", ":">>)
         THEN read_lines(Tail(lines), <<value_after_first_colon(line)>>, template)
         ELSE IF startswith(line, <<"_src_path", ":">>)
              THEN read_lines(Tail(lines), version, <<value_after_first_colon(line)>>)
              ELSE read_lines(Tail(lines), version, template)

\* Project._read_copier_info: (None, None) when the file does not exist;
\* open() and the read are not guarded, their fault propagates.
_read_copier_info(d) ==
    IF d.markers[".copier-answers.yml"] = "fault" THEN Raised(PermissionErr)
    ELSE IF d.markers[".copier-answers.yml"] = "absent"
         THEN Returned([version |-> <<>>, template |-> <<>>])
         ELSE IF d.answers.fault # NoExc
              THEN Raised(d.answers.fault)
              ELSE Returned(read_lines(d.answers.lines, <<>>, <<>>))

\* Project(...) as from_path fills it
Project(path, name, is_git, is_python, has_copier, version, template) ==
    [path |-> path, name |-> name, is_git |-> is_git,
     is_python |-> is_python, has_copier |-> has_copier,
     copier_version |-> version, copier_template |-> template]

\* Project.from_path
from_path(path, d) ==
    LET is_git == exists_or_false(d, ".git")
        is_python == exists_or_false(d, "pyproject.toml")
        has_copier == exists_or_false(d, ".copier-answers.yml")
        info == IF has_copier THEN _read_copier_info(d)
                ELSE Returned([version |-> <<>>, template |-> <<>>])
    IN IF info.raised THEN Raised(info.exc)
       ELSE Returned(Project(path, path[Len(path)], is_git, is_python,
                             has_copier, info.value[1].version,
                             info.value[1].template))

\* ------------------------------------------------------------ the walk
MaxDepth == 2

\* Entries of a directory listing.
D(name) == [name |-> name, dir |-> TRUE]
F(name) == [name |-> name, dir |-> FALSE]

\* What path.iterdir() can answer for a directory: a listing, a
\* PermissionError, or another OSError (the directory is gone).  The trees
\* walked have one long chain of directories "a" below the root and a
\* short branch "b" beside it; excluded names appear in the root.
ListOutcomes(path) ==
    IF path = <<>>
    THEN { Returned(<<>>),
           Returned(<<D(<<"a">>)>>),
           Returned(<<D(<<"build">>), F(<<"f">>), D(<<"a">>)>>),
           Returned(<<D(<<".", "x">>), D(<<"a">>), D(<<"b">>)>>),
           Raised(PermissionErr),
           Raised(NotFoundErr) }
    ELSE IF path[1] = <<"a">>
         THEN { Returned(<<>>),
                Returned(<<D(<<"a">>)>>),
                Returned(<<D(<<"build">>), D(<<"a">>)>>),
                Raised(PermissionErr),
                Raised(NotFoundErr) }
         ELSE IF Len(path) = 1
              THEN { Returned(<<>>), Returned(<<F(<<"f">>), D(<<"a">>)>>) }
              ELSE { Returned(<<>>) }

\* What a walked directory may hold.
Plain == Dir({}, {}, Lines(<<>>))
GitRepo == Dir({".git"}, {}, Lines(<<>>))
\* Denied: the checks of .git and pyproject.toml fault (I/O error).
Denied == Dir({}, {".git", "pyproject.toml"}, Lines(<<>>))
CopierUnreadable == Dir({".copier-answers.yml"}, {}, Unreadable(PermissionErr))
WalkContents == { Plain, GitRepo, Denied, CopierUnreadable }

\* "except PermissionError: pass" around the listing loop of _walk
WalkCatches(e) == e.cls = "PermissionError"

WalkInit ==
    /\ BatchIdle
    /\ RecordIdle
    /\ ModesIdle
    /\ UpdateIdle
    /\ max_depth \in 0..MaxDepth
    /\ rootHolds \in BOOLEAN
    /\ wpc = "walk"
    /\ stack = <<>>
    /\ pending = << [path |-> <<>>, depth |-> 0] >>      \* _walk(root, 0)
    /\ walked = <<>>
    /\ pruned = {}
    /\ discovered = <<>>
    /\ seen_dirs = {}

Top == stack[Len(stack)]
RestOfTop == [stack EXCEPT ![Len(stack)].items = Tail(@)]

\* _walk(path, current_depth) starts: the depth test, then path.iterdir().
Enter ==
    /\ wpc = "walk"
    /\ pending # <<>>
    /\ LET call == pending[1] IN
       IF DepthExceeded(call.depth, max_depth)
       THEN /\ pending' = <<>>
            /\ UNCHANGED <<wpc, stack>>
       ELSE \E o \in ListOutcomes(call.path) :
               /\ pending' = <<>>
               /\ IF ~o.raised
                  THEN /\ stack' = Append(stack, [path |-> call.path,
                                                  depth |-> call.depth,
                                                  items |-> o.value[1]])
                       /\ wpc' = wpc
                  ELSE /\ stack' = stack
                       /\ wpc' = IF WalkCatches(o.exc) THEN wpc ELSE "raised"
    /\ UNCHANGED <<max_depth, rootHolds, walked, pruned, discovered, seen_dirs>>
    /\ UNCHANGED <<evars, rvars, mvars, uvars>>

\* The next item is a file, or a directory excluded by its name: "continue".
Skip ==
    /\ wpc = "walk"
    /\ pending = <<>>
    /\ stack # <<>>
    /\ Top.items # <<>>
    /\ LET item == Head(Top.items) IN
       /\ ~item.dir \/ IsExcluded(item.name, DefaultExcludes)
       /\ IF item.dir
          THEN \E holds \in BOOLEAN :
                  pruned' = pruned \cup { [path |-> Append(Top.path, item.name),
                                           holds |-> holds] }
          ELSE pruned' = pruned
    /\ stack' = RestOfTop
    /\ UNCHANGED <<max_depth, rootHolds, wpc, pending, walked, discovered, seen_dirs>>
    /\ UNCHANGED <<evars, rvars, mvars, uvars>>

\* The next item is a directory that is not excluded: it is yielded, the
\* loop body of discover_projects runs on it, and the generator resumes
\* with the call _walk(item, current_depth + 1).
Yield ==
    /\ wpc = "walk"
    /\ pending = <<>>
    /\ stack # <<>>
    /\ Top.items # <<>>
    /\ LET item == Head(Top.items)
           project_dir == Append(Top.path, item.name)
       IN
       /\ item.dir
       /\ ~IsExcluded(item.name, DefaultExcludes)
       /\ \E d \in WalkContents :
             LET built == from_path(project_dir, d) IN
             /\ walked' = Append(walked, [path |-> project_dir, dir |-> d])
             /\ IF project_dir \in seen_dirs \/ ~_is_project_root(d)
                THEN UNCHANGED <<seen_dirs, discovered, wpc>>
                ELSE /\ seen_dirs' = seen_dirs \cup {project_dir}
                     /\ IF built.raised
                        THEN /\ wpc' = "raised"
                             /\ discovered' = discovered
                        ELSE /\ wpc' = wpc
                             /\ discovered' = Append(discovered, built.value[1])
       /\ pending' = << [path |-> project_dir, depth |-> Top.depth + 1] >>
    /\ stack' = RestOfTop
    /\ UNCHANGED <<max_depth, rootHolds, pruned>>
    /\ UNCHANGED <<evars, rvars, mvars, uvars>>

\* The listing of the innermost _walk is used up: the generator ends.
Exhausted ==
    /\ wpc = "walk"
    /\ pending = <<>>
    /\ stack # <<>>
    /\ Top.items = <<>>
    /\ stack' = SubSeq(stack, 1, Len(stack) - 1)
    /\ UNCHANGED <<max_depth, rootHolds, wpc, pending, walked, pruned,
                   discovered, seen_dirs>>
    /\ UNCHANGED <<evars, rvars, mvars, uvars>>

\* "return projects"
WalkReturn ==
    /\ wpc = "walk"
    /\ pending = <<>>
    /\ stack = <<>>
    /\ wpc' = "done"
    /\ UNCHANGED <<max_depth, rootHolds, stack, pending, walked, pruned,
                   discovered, seen_dirs>>
    /\ UNCHANGED <<evars, rvars, mvars, uvars>>

WalkNext ==
    \/ Enter
    \/ Skip
    \/ Yield
    \/ Exhausted
    \/ WalkReturn

WalkSpec == WalkInit /\ [][WalkNext]_vars

\* ------------------------------------------- Project records and filters
\* fnmatch.fnmatch(name, pat) on texts whose tokens are single characters:
\* "*" matches any run of characters, "?" exactly one, any other token
\* itself.
RECURSIVE fnmatch(_, _)
fnmatch(name, pat) ==
    IF pat = <<>> THEN name = <<>>
    ELSE IF pat[1] = "*"
         THEN \/ fnmatch(name, Tail(pat))
              \/ name # <<>> /\ fnmatch(Tail(name), pat)
         ELSE /\ name # <<>>
              /\ pat[1] = "?" \/ pat[1] = name[1]
              /\ fnmatch(Tail(name), Tail(pat))

\* str(path): the names joined by "/"
RECURSIVE PathString(_)
PathString(path) ==
    IF path = <<>> THEN <<>>
    ELSE IF Len(path) = 1 THEN path[1]
         ELSE path[1] \o <<"/">> \o PathString(Tail(path))

\* "fnmatch.fnmatch(self.name, name_pattern)"
path_matches(p, name_pattern) == fnmatch(PathString(p.path), name_pattern)
name_matches(p, name_pattern) == fnmatch(p.name, name_pattern)

\* "if flag and not self.attribute: return False"
RejectsNever(flag, attribute) == FALSE
Rejects(flag, attribute) == flag /\ ~attribute

\* The options of matches_filters.
Filters(python_only, non_python_only, copier_only, git_only, name_pattern, has_file) ==
    [python_only |-> python_only, non_python_only |-> non_python_only,
     copier_only |-> copier_only, git_only |-> git_only,
     name_pattern |-> name_pattern, has_file |-> has_file]

\* Project.matches_filters, on a Project p whose directory is d
matches_filters(p, d, o) ==
    IF Rejects(o.python_only, p.is_python) THEN FALSE
    ELSE IF Rejects(o.non_python_only, ~p.is_python) THEN FALSE
    ELSE IF Rejects(o.copier_only, p.has_copier) THEN FALSE
    ELSE IF Rejects(o.git_only, p.is_git) THEN FALSE
    ELSE IF Truthy(o.name_pattern) /\ ~name_matches(p, o.name_pattern[1]) THEN FALSE
    ELSE IF Truthy(o.has_file) /\ ~exists_or_false(d, o.has_file[1][1]) THEN FALSE
    ELSE TRUE

\* Contents of .copier-answers.yml: both keys; a key given twice, with
\* blanks and a ":" in its value; an empty value; an empty file.
AnswersFiles ==
    { << <<"_commit", ":", " ", "v1">>,
         <<"_src_path", ":", " ", "https", ":", "//x.git">> >>,
      << <<" ", "_commit", ":", "v1", ":", "2", " ">>,
         <<"other", ":", "z">>,
         <<"_commit", ":", " ", "v2">> >>,
      << <<"x", ":", "1">>, <<"_commit", ":">> >>,
      <<>> }

Answers ==
    { Lines(f) : f \in AnswersFiles }
    \cup { Unreadable(PermissionErr), Unreadable(IsADirectoryErr),
           Unreadable(UnicodeDecodeError) }

\* The directories given to from_path.
ScanDirs ==
    { Dir(present, faulty, Lines(<<>>)) :
        present \in { {}, {".git"}, {"pyproject.toml"}, {".git", "pyproject.toml"} },
        faulty \in { {}, {".git"}, {".copier-answers.yml"} } }
    \cup { Dir(present \cup {".copier-answers.yml"}, {}, a) :
             present \in { {}, {".git", "pyproject.toml"} }, a \in Answers }

ScanPaths == { << <<"c">> >>, << <<"a">>, <<"c", "p">> >> }

\* name_pattern: None, "", "c?", "c*", "*/cp"
NamePatterns ==
    { <<>>, << <<>> >>, << <<"c", "?">> >>, << <<"c", "*">> >>,
      << <<"*", "/", "c", "p">> >> }

\* has_file: None, "", ".git", "go.mod"
HasFiles == { <<>>, << <<>> >>, << <<".git">> >>, << <<"go.mod">> >> }

FilterOptions ==
    { Filters(py, npy, cp, git, pat, file) :
        py \in BOOLEAN, npy \in BOOLEAN, cp \in BOOLEAN, git \in BOOLEAN,
        pat \in NamePatterns, file \in HasFiles }

RecordInit ==
    /\ BatchIdle
    /\ WalkIdle
    /\ ModesIdle
    /\ UpdateIdle
    /\ directory \in { [path |-> p, dir |-> d] : p \in ScanPaths, d \in ScanDirs }
    /\ project = <<>>
    /\ options = <<>>
    /\ matched = <<>>
    /\ rpc = "scan"

\* Project.from_path(path)
FromPath ==
    /\ rpc = "scan"
    /\ LET built == from_path(directory.path, directory.dir) IN
       IF built.raised
       THEN /\ rpc' = "raised"
            /\ project' = project
       ELSE /\ rpc' = "filter"
            /\ project' = built.value
    /\ UNCHANGED <<directory, options, matched>>
    /\ UNCHANGED <<evars, wvars, mvars, uvars>>

\* project.matches_filters(**options)
MatchesFilters ==
    /\ rpc = "filter"
    /\ \E o \in FilterOptions :
          /\ options' = <<o>>
          /\ matched' = << matches_filters(project[1], directory.dir, o) >>
    /\ rpc' = "done"
    /\ UNCHANGED <<directory, project>>
    /\ UNCHANGED <<evars, wvars, mvars, uvars>>

RecordNext ==
    \/ FromPath
    \/ MatchesFilters

RecordSpec == RecordInit /\ [][RecordNext]_vars

\* ------------------------------------------ one input run in both modes
\* run_batch on the same projects and command, first with parallel=False,
\* continue_on_error=True, then with parallel=True; capture_output has its
\* default, True.  What a child does depends on the program launched and on
\* the project, not on the mode or the scheduling.
MaxModeProjects == 2

\* command: str | list[str]
Str(text) == [kind |-> "str", text |-> text, argv |-> <<>>]
List(argv) == [kind |-> "list", text |-> "", argv |-> argv]
Commands == { Str("ls x"), List(<<"ls", "x">>) }

\* A launched program: argv run directly, or /bin/sh -c argv[1] with the
\* rest of argv as the shell's positional parameters.
Program(via, argv) == [via |-> via, argv |-> argv]

\* subprocess.run(command, shell=shell): Popen turns a string into a
\* one-element list and, with shell=True, puts "/bin/sh -c" before the list.
launch_sync(cmd, sh) ==
    LET popen_args == IF cmd.kind = "str" THEN <<cmd.text>> ELSE cmd.argv
    IN Program(IF sh THEN "sh" ELSE "exec", popen_args)

\* _run_command_async: create_subprocess_shell for a string with shell=True,
\* create_subprocess_exec(*cmd_list) otherwise.
launch_async(cmd, sh) ==
    IF sh /\ cmd.kind = "str"
    THEN Program("sh", <<cmd.text>>)
    ELSE LET cmd_list == IF cmd.kind = "list" THEN cmd.argv ELSE <<cmd.text>>
         IN Program("exec", cmd_list)

Launched(cmd, sh) == { launch_sync(cmd, sh), launch_async(cmd, sh) }

\* What a child may do: exit with output that decodes, fail to launch, or
\* outlive the timeout.
ModeBehaviours(t) ==
    { b \in Behaviours(t) :
        b.kind = "exit" => Decodable(b.ex.out) /\ Decodable(b.ex.err) }

M == Len(munit)

ModesInit ==
    /\ BatchIdle
    /\ WalkIdle
    /\ RecordIdle
    /\ UpdateIdle
    /\ command \in Commands
    /\ shell \in BOOLEAN
    /\ mworkers \in 1..MaxWorkers
    /\ mtimeout \in Timeouts
    /\ \E n \in 0..MaxModeProjects :
          /\ world \in [Launched(command, shell) ->
                          [1..n -> ModeBehaviours(mtimeout)]]
          /\ munit = [i \in 1..n |-> "new"]
          /\ mtask = [i \in 1..n |-> <<>>]
    /\ mpc = "call"
    /\ seq_results = <<>>
    /\ seq_batch = <<>>
    /\ msem = 0
    /\ par_batch = <<>>

\* run_batch(parallel=False) entry: with no projects the loop is skipped.
ModeSeqCall ==
    /\ mpc = "call"
    /\ IF M = 0
       THEN mpc' = "parcall" /\ seq_batch' = <<from_results(seq_results)>>
       ELSE mpc' = "seq" /\ seq_batch' = seq_batch
    /\ UNCHANGED <<command, shell, mworkers, mtimeout, world, seq_results,
                   msem, munit, mtask, par_batch>>
    /\ UNCHANGED <<evars, wvars, rvars, uvars>>

\* One iteration of the sequential loop, with the return after the last.
ModeSeqStep ==
    /\ mpc = "seq"
    /\ LET i == Len(seq_results) + 1
           beh == world[launch_sync(command, shell)][i]
           r == run_command(i, beh, mtimeout, TRUE)
           rs == Append(seq_results, r.value[1])
       IN /\ seq_results' = rs
          /\ IF ShouldBreak(TRUE, r.value[1]) \/ i = M
             THEN mpc' = "parcall" /\ seq_batch' = <<from_results(rs)>>
             ELSE mpc' = "seq" /\ seq_batch' = seq_batch
    /\ UNCHANGED <<command, shell, mworkers, mtimeout, world, msem, munit,
                   mtask, par_batch>>
    /\ UNCHANGED <<evars, wvars, rvars, uvars>>

\* run_batch(parallel=True) entry: the semaphore and one task per project.
ModeParCall ==
    /\ mpc = "parcall"
    /\ mpc' = "par"
    /\ msem' = Semaphore(mworkers)
    /\ munit' = [i \in 1..M |-> "waiting"]
    /\ UNCHANGED <<command, shell, mworkers, mtimeout, world, seq_results,
                   seq_batch, mtask, par_batch>>
    /\ UNCHANGED <<evars, wvars, rvars, uvars>>

\* "async with semaphore", first-in first-out
ModeAcquire(i) ==
    /\ mpc = "par"
    /\ munit[i] = "waiting"
    /\ ~locked(msem)
    /\ \A j \in 1..(i - 1) : munit[j] # "waiting"
    /\ msem' = msem - 1
    /\ munit' = [munit EXCEPT ![i] = "running"]
    /\ UNCHANGED <<command, shell, mworkers, mtimeout, world, mpc,
                   seq_results, seq_batch, mtask, par_batch>>
    /\ UNCHANGED <<evars, wvars, rvars, uvars>>

\* _run_command_async of unit i, from the launch to its return: a launch
\* fault and a completed child give their outcome; on a timeout the handler
\* gives the timeout outcome, or proc.kill() raises ProcessLookupError and
\* the outer handler gives the fault outcome.
ModeComplete(i) ==
    /\ mpc = "par"
    /\ munit[i] = "running"
    /\ LET beh == world[launch_async(command, shell)][i] IN
       \E r \in (CASE beh.kind = "fault" -> { async_fault(i, beh.exc) }
                   [] beh.kind = "timeout" ->
                        { Returned(TimeoutResult(i, mtimeout)),
                          async_fault(i, ProcessLookupError) }
                   [] OTHER -> { async_completed(i, beh.ex, TRUE) }) :
          mtask' = [mtask EXCEPT ![i] = r.value]
    /\ msem' = release(msem)
    /\ munit' = [munit EXCEPT ![i] = "done"]
    /\ UNCHANGED <<command, shell, mworkers, mtimeout, world, mpc,
                   seq_results, seq_batch, par_batch>>
    /\ UNCHANGED <<evars, wvars, rvars, uvars>>

\* gather returns and _run_batch_async builds the BatchResult.
ModeGather ==
    /\ mpc = "par"
    /\ \A i \in 1..M : munit[i] = "done"
    /\ mpc' = "done"
    /\ par_batch' = <<from_results([i \in 1..M |-> mtask[i][1]])>>
    /\ UNCHANGED <<command, shell, mworkers, mtimeout, world, seq_results,
                   seq_batch, msem, munit, mtask>>
    /\ UNCHANGED <<evars, wvars, rvars, uvars>>

ModesNext ==
    \/ ModeSeqCall
    \/ ModeSeqStep
    \/ ModeParCall
    \/ \E i \in 1..M : ModeAcquire(i)
    \/ \E i \in 1..M : ModeComplete(i)
    \/ ModeGather

ModesSpec == ModesInit /\ [][ModesNext]_vars

\* ------------------------------------------------------ the update command
\* Model of cli.update: for each copier-managed project, stash local
\* changes, run copier update, look for merge conflicts, unstash.
MaxTargets == 2

\* The projects _get_filtered_projects returns for copier_only: all have
\* has_copier; some are git repositories.
TargetLists ==
    UNION { [1..n -> { [is_git |-> g] : g \in BOOLEAN }] : n \in 0..MaxTargets }

\* What run_command can answer for a git or copier command: success or
\* not, with empty, blank or non-blank output.
Outcomes ==
    { CommandResult(0, TRUE, <<>>, <<>>, 0),
      CommandResult(0, TRUE, <<" ">>, <<>>, 0),
      CommandResult(0, TRUE, <<"f">>, <<>>, 0),
      CommandResult(0, FALSE, <<"f">>, <<"e">>, 1) }

\* git_status: a project that is not a git repository gets a failure
\* without any command being run.
git_status(p, r) ==
    IF ~p.is_git
    THEN CommandResult(0, FALSE, <<>>, <<"Not a git repository">>, Sentinel)
    ELSE r

\* git_has_changes: "result.success and bool(result.output.strip())"
git_has_changes(p, r) ==
    git_status(p, r).success /\ strip(git_status(p, r).output) # <<>>

\* "conflict_check.success and conflict_check.output.strip()"
conflicts_detected_never(r) == FALSE
conflicts_detected(r) == r.success /\ strip(r.output) # <<>>

\* One command run in project i, as the history keeps it.
Ran(i, cmd, r) ==
    [project |-> i, cmd |-> cmd, success |-> r.success,
     text |-> strip(r.output) # <<>>]

Problem(i, why) == [project |-> i, reason |-> why]

UpdateInit ==
    /\ BatchIdle
    /\ WalkIdle
    /\ RecordIdle
    /\ ModesIdle
    /\ dry_run \in BOOLEAN
    /\ targets \in TargetLists
    /\ upc = "call"
    /\ cursor = 0
    /\ stashed = FALSE
    /\ problem_projects = <<>>
    /\ ran = <<>>

\* update entry: with no project found it returns at once.
UpdateCall ==
    /\ upc = "call"
    /\ IF targets = <<>>
       THEN upc' = "done" /\ cursor' = cursor
       ELSE upc' = "next" /\ cursor' = 1
    /\ UNCHANGED <<dry_run, targets, stashed, problem_projects, ran>>
    /\ UNCHANGED <<evars, wvars, rvars, mvars>>

\* The head of one iteration: dry run, the git test, git_has_changes.
BeginProject ==
    /\ upc = "next"
    /\ cursor <= Len(targets)
    /\ IF dry_run
       THEN /\ cursor' = cursor + 1
            /\ UNCHANGED <<upc, stashed, problem_projects, ran>>
       ELSE IF ~targets[cursor].is_git
            THEN /\ problem_projects' =
                       Append(problem_projects, Problem(cursor, "not a git repo"))
                 /\ cursor' = cursor + 1
                 /\ UNCHANGED <<upc, stashed, ran>>
            ELSE \E r \in Outcomes :
                    /\ ran' = Append(ran, Ran(cursor, "git status", r))
                    /\ stashed' = FALSE
                    /\ upc' = IF git_has_changes(targets[cursor], r)
                              THEN "push" ELSE "copier"
                    /\ UNCHANGED <<cursor, problem_projects>>
    /\ UNCHANGED <<dry_run, targets>>
    /\ UNCHANGED <<evars, wvars, rvars, mvars>>

\* git stash push
StashPush ==
    /\ upc = "push"
    /\ \E result \in Outcomes :
          /\ ran' = Append(ran, Ran(cursor, "git stash push", result))
          /\ IF result.success
             THEN /\ stashed' = TRUE
                  /\ upc' = "copier"
                  /\ UNCHANGED <<cursor, problem_projects>>
             ELSE /\ problem_projects' =
                        Append(problem_projects, Problem(cursor, "stash failed"))
                  /\ cursor' = cursor + 1
                  /\ upc' = "next"
                  /\ stashed' = stashed
    /\ UNCHANGED <<dry_run, targets>>
    /\ UNCHANGED <<evars, wvars, rvars, mvars>>

\* copier update
CopierUpdate ==
    /\ upc = "copier"
    /\ \E result \in Outcomes :
          /\ ran' = Append(ran, Ran(cursor, "copier update", result))
          /\ IF result.success
             THEN /\ upc' = "conflicts"
                  /\ UNCHANGED <<cursor, problem_projects>>
             ELSE /\ problem_projects' =
                        Append(problem_projects, Problem(cursor, "copier update failed"))
                  /\ IF stashed
                     THEN upc' = "popanyway" /\ cursor' = cursor
                     ELSE upc' = "next" /\ cursor' = cursor + 1
    /\ UNCHANGED <<dry_run, targets, stashed>>
    /\ UNCHANGED <<evars, wvars, rvars, mvars>>

\* git diff --name-only --diff-filter=U, after a successful copier update
ConflictCheck ==
    /\ upc = "conflicts"
    /\ \E conflict_check \in Outcomes :
          /\ ran' = Append(ran, Ran(cursor, "git diff", conflict_check))
          /\ IF conflicts_detected(conflict_check)
             THEN /\ problem_projects' =
                        Append(problem_projects, Problem(cursor, "merge conflicts"))
                  /\ upc' = "next"
                  /\ cursor' = cursor + 1
             ELSE /\ problem_projects' = problem_projects
                  /\ IF stashed
                     THEN upc' = "pop" /\ cursor' = cursor
                     ELSE upc' = "next" /\ cursor' = cursor + 1
    /\ UNCHANGED <<dry_run, targets, stashed>>
    /\ UNCHANGED <<evars, wvars, rvars, mvars>>

\* git stash pop after a copier update without conflicts
StashPop ==
    /\ upc = "pop"
    /\ \E unstash_result \in Outcomes :
          /\ ran' = Append(ran, Ran(cursor, "git stash pop", unstash_result))
          /\ problem_projects' =
                IF unstash_result.success THEN problem_projects
                ELSE Append(problem_projects, Problem(cursor, "unstash failed"))
    /\ upc' = "next"
    /\ cursor' = cursor + 1
    /\ UNCHANGED <<dry_run, targets, stashed>>
    /\ UNCHANGED <<evars, wvars, rvars, mvars>>

\* git stash pop after a failed copier update; its outcome is not looked at
StashPopAnyway ==
    /\ upc = "popanyway"
    /\ \E r \in Outcomes :
          ran' = Append(ran, Ran(cursor, "git stash pop", r))
    /\ upc' = "next"
    /\ cursor' = cursor + 1
    /\ UNCHANGED <<dry_run, targets, stashed, problem_projects>>
    /\ UNCHANGED <<evars, wvars, rvars, mvars>>

\* The summary after the loop: sys.exit(1) when a problem was recorded.
Summary ==
    /\ upc = "next"
    /\ cursor > Len(targets)
    /\ upc' = IF problem_projects # <<>> THEN "exit1" ELSE "done"
    /\ UNCHANGED <<dry_run, targets, cursor, stashed, problem_projects, ran>>
    /\ UNCHANGED <<evars, wvars, rvars, mvars>>

UpdateNext ==
    \/ UpdateCall
    \/ BeginProject
    \/ StashPush
    \/ CopierUpdate
    \/ ConflictCheck
    \/ StashPop
    \/ StashPopAnyway
    \/ Summary

UpdateSpec == UpdateInit /\ [][UpdateNext]_vars

\* ------------------------------------------------------------ properties
\* The outcome of the i-th project's command, once it has one.
Outcome(i) ==
    IF parallel THEN task[i]
    ELSE IF i <= Len(results) THEN <<results[i]>> ELSE <<>>
Finished == { i \in Units : Outcome(i) # <<>> }

\* Units that hold a semaphore slot, and those of them with a child process
\* that is started and not yet reaped.
Holding == { i \in Units : unit[i] \in {"spawning", "communicating", "reaping"} }
InFlight == { i \in Holding : proc[i].st # "none" }

\* C1: in concurrent mode the number of units that hold an admission slot
\* and have a child process in flight never exceeds max_workers.
C1_AtMostNInFlight ==
    parallel => Cardinality(InFlight) <= max_workers

\* C1 witness: the gate is full (max_workers children in flight) while
\* another unit is still waiting for a slot.
C1_Witness ==
    /\ parallel
    /\ Cardinality(InFlight) = max_workers
    /\ \A i \in InFlight : proc[i].st = "alive"
    /\ \E i \in Units : unit[i] = "waiting"

\* C2: the i-th outcome of a concurrent batch refers to the i-th input
\* project, whatever the order of completion.
C2_SubmissionOrder ==
    (parallel /\ batch # <<>>) =>
        /\ Len(batch[1].results) = N
        /\ \A i \in Units : batch[1].results[i].project = projects[i]
        /\ \A i \in Units : batch[1].results[i] = task[i][1]

\* C2 witness: a returned concurrent batch whose last unit finished first.
C2_Witness ==
    /\ parallel
    /\ batch # <<>>
    /\ N >= 2
    /\ completed[1] = N
    /\ completed[N] = 1

\* C3: total = len(results), successful + failed = total and successful
\* counts the outcomes with success set; the BatchResult never changes
\* after it is built.
C3_CountsConsistent ==
    /\ [](batch # <<>> =>
            /\ batch[1].total = Len(batch[1].results)
            /\ batch[1].successful + batch[1].failed = batch[1].total
            /\ batch[1].successful =
                 Cardinality({ i \in DOMAIN batch[1].results :
                                  batch[1].results[i].success }))
    /\ [][batch # <<>> => batch' = batch]_vars

\* C3 witness: a BatchResult with both successful and failed outcomes.
C3_Witness ==
    /\ batch # <<>>
    /\ batch[1].successful >= 1
    /\ batch[1].failed >= 1
    /\ batch[1].total >= 2

\* C4: sequential mode runs the commands in input order; with
\* continue_on_error false nothing is run after the first failure and the
\* BatchResult holds the outcomes up to and including it; with
\* continue_on_error true it holds one outcome per project.
C4_StopAtFirstFailure ==
    ~parallel =>
        /\ launched = 1..Len(results)
        /\ ~continue_on_error =>
              \A i \in 1..(Len(results) - 1) : results[i].success
        /\ batch # <<>> =>
              /\ batch[1].results = results
              /\ \A i \in 1..Len(results) : results[i].project = projects[i]
              /\ continue_on_error => Len(results) = N
              /\ ~continue_on_error =>
                    \/ Len(results) = N
                    \/ ~results[Len(results)].success

\* C4 witness: a sequential batch that stopped early on a failure.
C4_Witness ==
    /\ ~parallel
    /\ ~continue_on_error
    /\ batch # <<>>
    /\ Len(batch[1].results) = 2
    /\ N = 3
    /\ batch[1].results[1].success
    /\ ~batch[1].results[2].success

\* The case of C5: sequential, continue_on_error true (stop-on-first-failure
\* false), inputs [A, B], A's command fails and B's, if run, succeeds.
C5_Case ==
    /\ ~parallel
    /\ continue_on_error
    /\ N = 2
    /\ batch # <<>>
    /\ ~results[1].success
    /\ Len(results) >= 2 => results[2].success

\* C5 as stated: in that case the BatchResult holds only A's outcome.
C5_OnlyFirstOutcome ==
    C5_Case => (Len(batch[1].results) = 1 /\ batch[1].results[1].project = projects[1])

\* C5 amended: sequential mode with continue_on_error true and inputs
\* [A, B], where A's command fails and B's succeeds, yields both outcomes,
\* A's then B's (total 2, successful 1, failed 1).
C5_BothOutcomes ==
    C5_Case =>
        /\ Len(batch[1].results) = 2
        /\ batch[1].results[1].project = projects[1]
        /\ batch[1].results[2].project = projects[2]
        /\ ~batch[1].results[1].success
        /\ batch[1].results[2].success
        /\ batch[1].total = 2
        /\ batch[1].successful = 1
        /\ batch[1].failed = 1

\* C5 witness: such a run has returned, B having run after A's failure.
C5_Witness ==
    /\ C5_Case
    /\ launched = {1, 2}
    /\ behaviour[1].kind = "fault"
    /\ behaviour[2].kind = "exit"

\* C6: a concurrent batch never stops early: it never aborts, and its
\* BatchResult holds one outcome per input project, every unit having been
\* run, whatever failed.
C6_NoEarlyStop ==
    parallel =>
        /\ pc # "raised"
        /\ batch # <<>> =>
              /\ batch[1].total = N
              /\ Len(batch[1].results) = N
              /\ launched = Units
              /\ \A i \in Units : behaviour[i].kind # "none"

\* C6 witness: a returned concurrent batch whose first unit failed first and
\* whose later units ran to completion, one by launch fault, timeout or
\* non-zero exit, one successfully.
C6_Witness ==
    /\ parallel
    /\ batch # <<>>
    /\ N >= 2
    /\ completed[1] = 1
    /\ ~batch[1].results[1].success
    /\ batch[1].results[N].success
    /\ batch[1].failed >= 1

\* The fault that the "except Exception" handler of the i-th command saw.
FaultSeen(i) ==
    LET b == behaviour[i] IN
    IF b.kind = "fault" THEN <<b.exc>>
    ELSE IF b.kind = "exit" /\ capture_output
            /\ ~(Decodable(b.ex.out) /\ Decodable(b.ex.err))
         THEN <<UnicodeDecodeError>>
    ELSE IF b.kind = "timeout" /\ b.exc # NoExc
         THEN <<b.exc>>
    ELSE <<>>

\* C7: no fault leaves run_command, _run_command_async or run_batch: every
\* command that was started and has ended has an outcome, and a launch
\* failure or other fault gives success false, exit_code -1 and the
\* stringified fault as error.
C7_FaultsBecomeOutcomes ==
    /\ pc # "raised"
    /\ \A i \in Units : unit[i] # "raised"
    /\ ~parallel => Len(results) = Cardinality(launched)
    /\ \A i \in Finished :
          FaultSeen(i) # <<>> =>
              /\ ~Outcome(i)[1].success
              /\ Outcome(i)[1].exit_code = Sentinel
              /\ Outcome(i)[1].error = FaultSeen(i)[1].msg
              /\ Outcome(i)[1].project = projects[i]

\* C7 witness: a returned concurrent batch with the outcome of a launch
\* fault and the outcome of a fault raised inside the timeout handler.
C7_Witness ==
    /\ pc = "done"
    /\ N >= 2
    /\ behaviour[1].kind = "fault"
    /\ behaviour[1].exc.cls = "ValueError"
    /\ FaultSeen(2) = <<ProcessLookupError>>
    /\ batch[1].results[2].exit_code = Sentinel
    /\ Finished = Units

\* The text the runner reports for a captured stream.
Reported(bytes) == IF capture_output THEN decode(bytes) ELSE <<>>

\* An outcome as C8 describes it for a child that exited with status ex.rc.
CompletedOutcome(o, ex) ==
    /\ o.success = (ex.rc = 0)
    /\ o.exit_code = ex.rc

C9_TimeoutOutcome ==
    \A i \in Finished :
        behaviour[i].kind = "timeout" =>
            /\ Outcome(i)[1] = TimeoutResult(projects[i], timeout)
            /\ parallel => proc[i].st \in {"killed", "exited"}

\* C10: a unit's timeout kills that unit's child only: a process is killed
\* only in the step in which its own unit's wait_for times out, no other
\* unit or process changes in that step, and the outcome of a unit whose
\* child exited by itself is the one built from that child's exit.
C10_TimeoutKillsOwnChildOnly ==
    /\ [][\A j \in Units :
            (proc[j].st # "killed" /\ proc'[j].st = "killed") =>
                /\ unit[j] = "communicating"
                /\ unit'[j] = "reaping"
                /\ behaviour'[j].kind = "timeout"
                /\ \A k \in Units \ {j} : proc'[k] = proc[k] /\ unit'[k] = unit[k]
         ]_vars
    /\ [](\A j \in Units :
            /\ proc[j].st = "killed" => behaviour[j].kind = "timeout"
            /\ (unit[j] = "done" /\ behaviour[j].kind = "exit") =>
                  /\ proc[j].st = "exited"
                  /\ task[j] = async_completed(projects[j], proc[j].ex, capture_output).value)

\* C10 witness: unit i timed out and its child was killed while sibling j's
\* child was alive; j later finished with its own child's successful exit.
C10_Witness ==
    \E i, j \in Units :
        /\ i # j
        /\ proc[i].st = "killed"
        /\ unit[i] = "done"
        /\ unit[j] = "done"
        /\ behaviour[j].kind = "exit"
        /\ task[j][1].success
        /\ \E a, b \in 1..Len(completed) : a < b /\ completed[a] = i /\ completed[b] = j

\* C11: with every started child eventually exiting or timing out, every
\* unit waiting at the gate is eventually admitted and the concurrent batch
\* eventually returns its BatchResult; a waiting unit is never turned away:
\* the only step it takes is to get its slot.  The batch returns with every
\* unit, the waiting ones included, run to its end, and a unit leaves the
\* gate in no other way than by being admitted.
C11_WaitersAdmittedBatchReturns ==
    /\ (pc = "par")
          ~> (pc = "done" /\ batch # <<>> /\ \A i \in Units : unit[i] = "done")
    /\ [][\A i \in Units :
            unit[i] = "waiting" => unit'[i] \in {"waiting", "spawning"}]_vars

\* C11 witness: a returned concurrent batch with more units than slots, so
\* that its last unit had to wait at the gate for a slot to be released.
C11_Witness ==
    /\ parallel
    /\ pc = "done"
    /\ batch # <<>>
    /\ N > max_workers
    /\ completed[N] = N

\* C20: the free slots and the units holding a slot add up to max_workers in
\* every state of a concurrent batch; a unit gives its slot back in the step
\* in which its coroutine ends, whatever the outcome; when the batch has
\* returned every slot is free.
C20_SlotsConserved ==
    /\ []((parallel /\ pc # "call") =>
            /\ sem + Cardinality(Holding) = max_workers
            /\ sem >= 0
            /\ pc = "done" => sem = max_workers)
    /\ [][\A i \in Units :
            (i \in Holding /\ unit'[i] \in {"done", "raised"}) => sem' = sem + 1]_vars

\* C20 witness: a returned concurrent batch, all slots free, with units that
\* ended by launch failure, by timeout and by non-zero exit.
C20_Witness ==
    /\ parallel
    /\ pc = "done"
    /\ sem = max_workers
    /\ \E i, j, k \in Units :
          /\ behaviour[i].kind = "fault"
          /\ behaviour[j].kind = "timeout"
          /\ behaviour[k].kind = "exit" /\ behaviour[k].ex.rc = 7

\* -------------------------------------------------- properties of the walk
PathsOf(seq) == [i \in DOMAIN seq |-> seq[i].path]

\* The directory holds a marker that can be seen.
HoldsMarker(d) == \E m \in MarkerNames : d.markers[m] = "present"

WalkedWithMarker == SelectSeq(walked, LAMBDA w : HoldsMarker(w.dir))

\* No name on the path is in the block-list or starts with ".".
NoExcludedName(path) ==
    \A k \in DOMAIN path : path[k] \notin DefaultExcludes /\ path[k][1] # "."

IsPrefix(p, q) == Len(p) <= Len(q) /\ SubSeq(q, 1, Len(p)) = p

\* C12 as stated: a walk with max_depth = 0 over a root that is itself a
\* project root returns exactly one Project, the root, and visits no
\* descendant of the root.
C12_RootReportedAlone ==
    (wpc = "done" /\ max_depth = 0 /\ rootHolds) =>
        /\ Len(discovered) = 1
        /\ discovered[1].path = <<>>
        /\ walked = <<>>

\* C12 amended: a walk with max_depth = 0 over a root that is itself a
\* project root never reports the root; only the root is listed, the
\* directories looked at are immediate children of the root, and the
\* Projects returned are exactly those children that hold a marker.
C12_ChildrenReported ==
    (wpc \in {"walk", "done"} /\ max_depth = 0 /\ rootHolds) =>
        /\ \A i \in DOMAIN stack : stack[i].path = <<>>
        /\ \A i \in DOMAIN walked : Len(walked[i].path) = 1
        /\ \A i \in DOMAIN discovered : discovered[i].path # <<>>
        /\ PathsOf(discovered) = PathsOf(WalkedWithMarker)

\* C12 witness: the walk of a project root with max_depth = 0 has returned
\* two children, after pruning a third.
C12_Witness ==
    /\ wpc = "done"
    /\ max_depth = 0
    /\ rootHolds
    /\ Len(discovered) = 2
    /\ pruned # {}

\* C13 as stated: every Project returned lies at depth at most max_depth
\* below the root, the root being at depth 0.
C13_DepthAtMostD ==
    \A i \in DOMAIN discovered : Len(discovered[i].path) <= max_depth

\* C13 amended: every Project returned is a directory strictly below the
\* root, at depth at least 1 and at most max_depth + 1 (root = depth 0).
C13_DepthAtMostDPlusOne ==
    /\ \A i \in DOMAIN discovered :
          Len(discovered[i].path) \in 1..(max_depth + 1)
    /\ \A i \in DOMAIN walked :
          Len(walked[i].path) \in 1..(max_depth + 1)

\* C13 witness: a returned walk with max_depth >= 1 reports a Project at
\* depth max_depth + 1.
C13_Witness ==
    /\ wpc = "done"
    /\ max_depth >= 1
    /\ \E i \in DOMAIN discovered : Len(discovered[i].path) = max_depth + 1

\* C14: a directory met during the walk whose name is in the block-list or
\* starts with "." is pruned: neither it nor anything below it is yielded,
\* listed or reported, whatever it holds.
C14_ExcludedNeverVisited ==
    /\ \A i \in DOMAIN walked : NoExcludedName(walked[i].path)
    /\ \A i \in DOMAIN discovered : NoExcludedName(discovered[i].path)
    /\ \A i \in DOMAIN stack : NoExcludedName(stack[i].path)
    /\ pending # <<>> => NoExcludedName(pending[1].path)
    /\ \A p \in pruned :
          /\ ~NoExcludedName(p.path)
          /\ \A i \in DOMAIN walked : ~IsPrefix(p.path, walked[i].path)
          /\ \A i \in DOMAIN discovered : ~IsPrefix(p.path, discovered[i].path)

\* C14 witness: a returned walk met a hidden directory and a block-listed
\* directory that both hold markers, and reported a Project elsewhere.
C14_Witness ==
    /\ wpc = "done"
    /\ discovered # <<>>
    /\ \E p, q \in pruned :
          /\ p.holds /\ p.path[Len(p.path)] = <<".", "x">>
          /\ q.holds /\ q.path[Len(q.path)] = <<"build">>

\* C15: the Projects returned are the yielded directories that hold a
\* marker, one Project each, no two with the same path, none for a
\* directory without a marker; a project inside a project is among them.
C15_MarkerDirsReportedOnce ==
    wpc \in {"walk", "done"} =>
        /\ PathsOf(discovered) = PathsOf(WalkedWithMarker)
        /\ \A i, j \in DOMAIN discovered :
              discovered[i].path = discovered[j].path => i = j
        /\ \A i \in DOMAIN walked :
              HoldsMarker(walked[i].dir) <=>
                  \E j \in DOMAIN discovered : discovered[j].path = walked[i].path

\* C15 witness: a returned walk reported a project and a project nested in
\* it, and passed over a marker-less directory and one whose marker checks
\* fault.
C15_Witness ==
    /\ wpc = "done"
    /\ \E i, j \in DOMAIN discovered :
          /\ i # j
          /\ IsPrefix(discovered[i].path, discovered[j].path)
    /\ \E i, j \in DOMAIN walked :
          walked[i].dir = Plain /\ walked[j].dir = Denied

\* C16 as stated, for discover_projects: no fault met while listing a
\* directory, checking a marker or reading .copier-answers.yml reaches the
\* caller.
C16_NoFaultSurfacesFromWalk == wpc # "raised"

\* ------------------------------------- properties of records and filters
\* An option counts as set when it is given and not empty.
IsSet(opt) == opt # <<>> /\ opt[1] # <<>>

\* C17: with python_only and non_python_only both true, matches_filters
\* answers false, whatever the Project and the other options.
C17_BothFlagsMatchNothing ==
    (rpc = "done" /\ options[1].python_only /\ options[1].non_python_only)
        => matched = <<FALSE>>

\* C17 witness: both flags were given for a Python project and for one
\* that is not, with no other option set.
C17_Witness ==
    /\ rpc = "done"
    /\ options[1].python_only /\ options[1].non_python_only
    /\ ~options[1].copier_only /\ ~options[1].git_only
    /\ options[1].name_pattern = <<>> /\ options[1].has_file = <<>>
    /\ project[1].is_python
    /\ matched = <<FALSE>>

\* The conjunction of the options, an option being used under "applies".
Conjunction(p, d, o, name_applies, file_applies) ==
    /\ o.python_only => p.is_python
    /\ o.non_python_only => ~p.is_python
    /\ o.copier_only => p.has_copier
    /\ o.git_only => p.is_git
    /\ name_applies => fnmatch(p.name, o.name_pattern[1])
    /\ file_applies => d.markers[o.has_file[1][1]] = "present"

\* C18: matches_filters is the conjunction of its set options, name_pattern
\* and has_file counting as set when given and not empty; the glob is
\* matched against the display name, not the path; with no option set the
\* answer is true.
C18_ConjunctionOfSetOptions ==
    rpc = "done" =>
        LET o == options[1] IN
        /\ matched[1] = Conjunction(project[1], directory.dir, o,
                                    IsSet(o.name_pattern), IsSet(o.has_file))
        /\ (~o.python_only /\ ~o.non_python_only /\ ~o.copier_only
            /\ ~o.git_only /\ ~IsSet(o.name_pattern) /\ ~IsSet(o.has_file))
               => matched[1]

\* C18 witness: a project two levels down matched a name glob and a
\* required file, with git_only set.
C18_Witness ==
    /\ rpc = "done"
    /\ Len(directory.path) = 2
    /\ options[1].git_only
    /\ options[1].name_pattern = << <<"c", "?">> >>
    /\ options[1].has_file = << <<".git">> >>
    /\ matched = <<TRUE>>

\* The value of the last line of the file that starts with the key: what
\* stands after the key and its ":", without blanks around; None when no
\* line starts with the key.
KeyLines(lines, key) ==
    { i \in DOMAIN lines : startswith(strip(lines[i]), <<key, ":">>) }
ValueOfKey(lines, key) ==
    IF KeyLines(lines, key) = {} THEN <<>>
    ELSE LET i == CHOOSE k \in KeyLines(lines, key) :
                      \A j \in KeyLines(lines, key) : j <= k
             line == strip(lines[i])
         IN << strip(SubSeq(line, 3, Len(line))) >>

\* C19: on a Project built by from_path, copier_version and
\* copier_template are non-null only if has_copier; when
\* .copier-answers.yml is present they are the values of its _commit and
\* _src_path lines (None for a key the file does not give).
C19_CopierFieldsFromFile ==
    project # <<>> =>
        LET p == project[1]
            d == directory.dir
        IN
        /\ (p.copier_version # <<>> \/ p.copier_template # <<>>) => p.has_copier
        /\ p.has_copier <=> d.markers[".copier-answers.yml"] = "present"
        /\ p.has_copier =>
              /\ p.copier_version = ValueOfKey(d.answers.lines, "_commit")
              /\ p.copier_template = ValueOfKey(d.answers.lines, "_src_path")

\* C19 witness: a Project built from a directory whose file gives both
\* keys, the template value holding a ":".
C19_Witness ==
    /\ project # <<>>
    /\ project[1].has_copier
    /\ project[1].copier_version = << <<"v1">> >>
    /\ project[1].copier_template = << <<"https", ":", "//x.git">> >>

\* ------------------------------------------------ properties of the modes
\* (project, success, exit_code) of each outcome of a batch
Triples(b) ==
    [k \in DOMAIN b.results |->
        <<b.results[k].project, b.results[k].success, b.results[k].exit_code>>]

\* C21 as stated: the sequential run with continue_on_error=True and the
\* concurrent run of the same input return the same sequence of
\* (project, success, exit_code) and the same total, successful and failed.
C21_ModesAgree ==
    mpc = "done" =>
        /\ Triples(seq_batch[1]) = Triples(par_batch[1])
        /\ seq_batch[1].total = par_batch[1].total
        /\ seq_batch[1].successful = par_batch[1].successful
        /\ seq_batch[1].failed = par_batch[1].failed

\* ------------------------------------------- properties of the update command
\* The positions in the history of command cmd run in project i.
RanAt(i, cmd) ==
    { k \in DOMAIN ran : ran[k].project = i /\ ran[k].cmd = cmd }

\* C22: for each project, git stash pop is run at most once and only after
\* a git stash push of that project succeeded; copier update is never run
\* for a project that is not a git repository or whose stash push failed;
\* after a successful copier update whose conflict check succeeded with
\* output, no pop is run; and the project is recorded as a problem at most
\* once.
C22_StashProtocol ==
    \A i \in DOMAIN targets :
        /\ Cardinality(RanAt(i, "git stash pop")) <= 1
        /\ \A k \in RanAt(i, "git stash pop") :
              \E j \in RanAt(i, "git stash push") : j < k /\ ran[j].success
        /\ \A k \in RanAt(i, "copier update") :
              /\ targets[i].is_git
              /\ \A j \in RanAt(i, "git stash push") : ran[j].success
        /\ (\E k \in RanAt(i, "git diff") : ran[k].success /\ ran[k].text)
              => RanAt(i, "git stash pop") = {}
        /\ \A k \in RanAt(i, "git diff") :
              \E j \in RanAt(i, "copier update") : j < k /\ ran[j].success
        /\ Cardinality({ k \in DOMAIN problem_projects :
                            problem_projects[k].project = i }) <= 1

\* C22 witness: the command has ended after leaving the stash of one project
\* in place because of merge conflicts and popping the stash of another
\* whose copier update failed.
C22_Witness ==
    /\ upc = "exit1"
    /\ \E i, j \in DOMAIN targets :
          /\ \E k \in RanAt(i, "git stash push") : ran[k].success
          /\ \E k \in RanAt(i, "git diff") : ran[k].success /\ ran[k].text
          /\ RanAt(i, "git stash pop") = {}
          /\ \E k \in RanAt(j, "copier update") : ~ran[k].success
          /\ RanAt(j, "git stash pop") # {}
          /\ Len(problem_projects) = 2

====
